---- MODULE Spec2Model ----
(***************************************************************************)
(* The cart store of src/app/cartSlice.ts (a Redux Toolkit slice with the  *)
(* reducers addToCart, incrementQuantity, decrementQuantity) and the App   *)
(* component that dispatches to it.                                        *)
(*                                                                         *)
(* A JavaScript object is modelled as a function from its own property     *)
(* names to their values: state.items is a function from product ids to    *)
(* entries, an entry is a function from field names to field values.       *)
(***************************************************************************)
EXTENDS Integers, Sequences, FiniteSets, TLC

\* ------------------------------------------------------------------ bounds
\* The quantity of an entry is an unbounded JavaScript number; the model stops
\* adding to an entry at MaxQuantity.
MaxQuantity == 3
\* The catalog fetch delivers at most MaxProducts products.
MaxProducts == 2

\* The product ids operations are dispatched with.
Ids == {1, 2}

\* ------------------------------------------------------------------ data
\* Two different catalog descriptions of the same product id: they differ in
\* title, image and price (in cents), so a stored entry tells which one it was
\* made from.
Versions == {1, 2}
TitleOf(id, v) == IF v = 1 THEN "Shirt" ELSE "Shirt (renamed)"
ImageOf(id, v) == IF v = 1 THEN "u1" ELSE "u2"
PriceOf(id, v) == IF v = 1 THEN 1999 + id ELSE 2499 + id

\* interface CartItem: the payload type of addToCart. The quantity a payload
\* carries is any number.
PayloadQuantities == {1, 5}
CartItem(id, v, q) ==
  [id |-> id, title |-> TitleOf(id, v), image |-> ImageOf(id, v),
   price |-> PriceOf(id, v), quantity |-> q]

\* interface Product: what the catalog fetch delivers.
Product(id, v) ==
  [id |-> id, title |-> TitleOf(id, v), image |-> ImageOf(id, v),
   price |-> PriceOf(id, v), category |-> "clothing",
   rating |-> [rate |-> 4, count |-> 120], description |-> "A shirt"]

Products == {Product(id, v) : id \in Ids, v \in Versions}

\* { ...obj, k: val }: the own properties of obj, with k set to val.
Spread(obj, k, val) ==
  [f \in DOMAIN obj \cup {k} |-> IF f = k THEN val ELSE obj[f]]

\* The payloads of addToCart: values of type CartItem, and the objects
\* addItemToCart builds from a Product (TypeScript accepts them as CartItem).
Payloads ==
  {CartItem(id, v, q) : id \in Ids, v \in Versions, q \in PayloadQuantities}
  \cup {Spread(p, "quantity", q) : p \in Products, q \in PayloadQuantities}

CartItemFields == {"id", "title", "image", "price", "quantity"}

\* What the fetch can resolve to: any list of products, also one that names
\* an id twice (with two descriptions). The App uses the list only through the
\* rows it renders, one per element, so the lists are taken in one order and
\* without the same product twice.
Before(p, q) ==
  \/ p.id < q.id
  \/ p.id = q.id /\ p.price < q.price

Catalogs ==
  {c \in UNION {[1..n -> Products] : n \in 0..MaxProducts} :
     \A i, j \in DOMAIN c : i < j => Before(c[i], c[j])}

\* ------------------------------------------------------------------ state
VARIABLES
  items,    \* state.cart.items
  last,     \* history: the last operation dispatched to the store
  decRun,   \* history: per id, the run of consecutive decrements in progress
  trip,     \* history: the add ... decrement round trip in progress
  products,         \* useState<Product[]>([])
  selectedProduct,  \* useState<Product | null>(null): {} is null, {p} is p
  modalVisible,     \* useState<boolean>(false)
  fetchState,       \* the promise of the fetch started by useEffect
  gone,     \* history: per id, the entry a decrement removed and the payload
            \* of the addToCart that next brought the id back
  pc,       \* where the event handler that is running stands; "idle" between events
  draft,    \* the draft of state.items the running reducer works on
  event     \* the handler that runs or ran last, the action it dispatched, and
            \* the number of its dispatches

stepVars == <<pc, draft, event>>
storeVars == <<items, last, decRun, trip, gone, pc, draft, event>>
appVars == <<products, selectedProduct, modalVisible, fetchState>>
vars == <<items, last, decRun, trip, gone, products, selectedProduct,
          modalVisible, fetchState, pc, draft, event>>

\* initialState
initialState == [items |-> <<>>]

\* interface CartState: items maps numbers to CartItems.
IsCartItem(e) ==
  /\ CartItemFields \subseteq DOMAIN e
  /\ e["id"] \in Int
  /\ e["price"] \in Int
  /\ e["quantity"] \in Int

IsCartState(its) ==
  /\ DOMAIN its \subseteq Int
  /\ \A k \in DOMAIN its : IsCartItem(its[k])

\* obj[k] = val
Put(obj, k, val) == [x \in DOMAIN obj \cup {k} |-> IF x = k THEN val ELSE obj[x]]

\* delete obj[k]
Delete(obj, k) == [x \in DOMAIN obj \ {k} |-> obj[x]]

\* if (state.items[id]): an entry is an object, which is truthy; a missing
\* property reads as undefined, which is falsy.
Has(its, id) == id \in DOMAIN its

\* ------------------------------------------------------------------ reducers
\* Variant: { quantity: 1, ...item } in place of { ...item, quantity: 1 }.
addToCart_PayloadQuantity(its, item) ==
  IF Has(its, item.id)
  THEN [its EXCEPT ![item.id] = [@ EXCEPT !["quantity"] = @ + 1]]
  ELSE Put(its, item.id, item)

\* Variant: an existing entry is rebuilt from the payload.
addToCart_Overwrites(its, item) ==
  IF Has(its, item.id)
  THEN Put(its, item.id, Spread(item, "quantity", its[item.id]["quantity"] + 1))
  ELSE Put(its, item.id, Spread(item, "quantity", 1))

\* Variant: a new entry is stored under the next free position, as in a list,
\* not under its id.
addToCart_KeyedByCount(its, item) ==
  IF Has(its, item.id)
  THEN [its EXCEPT ![item.id] = [@ EXCEPT !["quantity"] = @ + 1]]
  ELSE Put(its, Cardinality(DOMAIN its) + 1, Spread(item, "quantity", 1))

addToCart(its, item) ==
  IF Has(its, item.id)
  THEN [its EXCEPT ![item.id] = [@ EXCEPT !["quantity"] = @ + 1]]
  ELSE Put(its, item.id, Spread(item, "quantity", 1))

\* Variant: the entry is replaced by one that keeps only id and quantity.
incrementQuantity_DropsFields(its, id) ==
  IF Has(its, id)
  THEN [its EXCEPT ![id] = [id |-> @["id"], quantity |-> @["quantity"] + 1]]
  ELSE its

\* Variant: no test for the entry; an absent id gets one.
incrementQuantity_CreatesEntry(its, id) ==
  IF Has(its, id)
  THEN [its EXCEPT ![id] = [@ EXCEPT !["quantity"] = @ + 1]]
  ELSE Put(its, id, [id |-> id, quantity |-> 1])

\* Variant: += 2.
incrementQuantity_ByTwo(its, id) ==
  IF Has(its, id)
  THEN [its EXCEPT ![id] = [@ EXCEPT !["quantity"] = @ + 2]]
  ELSE its

incrementQuantity(its, id) ==
  IF Has(its, id)
  THEN [its EXCEPT ![id] = [@ EXCEPT !["quantity"] = @ + 1]]
  ELSE its

\* Variant: < 0 in place of <= 0.
decrementQuantity_KeepsZero(its, id) ==
  IF Has(its, id)
  THEN LET dec == [its EXCEPT ![id] = [@ EXCEPT !["quantity"] = @ - 1]]
       IN  IF dec[id]["quantity"] < 0 THEN Delete(dec, id) ELSE dec
  ELSE its

\* Variant: <= 1 in place of <= 0.
decrementQuantity_RemovesAtOne(its, id) ==
  IF Has(its, id)
  THEN LET dec == [its EXCEPT ![id] = [@ EXCEPT !["quantity"] = @ - 1]]
       IN  IF dec[id]["quantity"] <= 1 THEN Delete(dec, id) ELSE dec
  ELSE its

\* Variant: the test for removal is made before the decrement.
decrementQuantity_TestsFirst(its, id) ==
  IF Has(its, id)
  THEN IF its[id]["quantity"] <= 0
       THEN Delete(its, id)
       ELSE [its EXCEPT ![id] = [@ EXCEPT !["quantity"] = @ - 1]]
  ELSE its

\* Variant: removing the last unit of an entry resets the whole cart.
decrementQuantity_ClearsCart(its, id) ==
  IF Has(its, id)
  THEN LET dec == [its EXCEPT ![id] = [@ EXCEPT !["quantity"] = @ - 1]]
       IN  IF dec[id]["quantity"] <= 0 THEN initialState.items ELSE dec
  ELSE its

decrementQuantity(its, id) ==
  IF Has(its, id)
  THEN LET dec == [its EXCEPT ![id] = [@ EXCEPT !["quantity"] = @ - 1]]
       IN  IF dec[id]["quantity"] <= 0 THEN Delete(dec, id) ELSE dec
  ELSE its

\* ------------------------------------------------------------------ history
\* The entry of id before an operation, as a set of at most one element.
EntryOf(its, id) == IF Has(its, id) THEN {its[id]} ELSE {}

NoOp == [op |-> "none", id |-> 0, pre |-> {}, payload |-> {}]

\* Below the model's bound on quantities.
Room(its, id) == Has(its, id) => its[id]["quantity"] < MaxQuantity

\* decRun[id] = [q |-> the quantity id had when the run began, k |-> the number
\* of decrements of id since, with no other operation on id in between];
\* k = 0 when no run is in progress.
NoRun == [q |-> 0, k |-> 0]

RunAfter(op, id) ==
  IF op = "decrementQuantity" /\ Has(items, id)
  THEN IF decRun[id].k > 0
       THEN [decRun EXCEPT ![id].k = @ + 1]
       ELSE [decRun EXCEPT ![id] = [q |-> items[id]["quantity"], k |-> 1]]
  ELSE [decRun EXCEPT ![id] = NoRun]

\* trip = [id, base, n, d]: id was absent in base, was then added, has since
\* had n further addToCart/incrementQuantity and after those d
\* decrementQuantity, and no operation on another id happened meanwhile.
NoTrip == [on |-> FALSE, id |-> 0, base |-> <<>>, n |-> 0, d |-> 0]

TripAfter(op, id) ==
  IF op = "addToCart" /\ ~Has(items, id)
  THEN [on |-> TRUE, id |-> id, base |-> items, n |-> 0, d |-> 0]
  ELSE IF trip.on /\ trip.id = id /\ Has(items, id)
       THEN IF op = "decrementQuantity"
            THEN [trip EXCEPT !.d = @ + 1]
            ELSE IF trip.d = 0 THEN [trip EXCEPT !.n = @ + 1] ELSE NoTrip
       ELSE NoTrip

\* gone[id] = [e |-> the entry of id that a decrement took the last unit of,
\* p |-> the payload of the first addToCart for id after that]; both empty
\* when id was not removed, or something else happened to its entry since.
NoGone == [e |-> {}, p |-> {}]

GoneAfter(op, id, payload) ==
  IF op = "decrementQuantity" /\ Has(items, id) /\ items[id]["quantity"] <= 1
  THEN [gone EXCEPT ![id] = [e |-> {items[id]}, p |-> {}]]
  ELSE IF op = "addToCart" /\ gone[id].e # {} /\ gone[id].p = {}
       THEN [gone EXCEPT ![id].p = payload]
       ELSE IF op # "addToCart" /\ ~Has(items, id)
            THEN gone
            ELSE [gone EXCEPT ![id] = NoGone]

\* What the history variables record of one dispatch.
RecordHist(op, id, payload) ==
  /\ last' = [op |-> op, id |-> id, pre |-> EntryOf(items, id), payload |-> payload]
  /\ decRun' = RunAfter(op, id)
  /\ trip' = TripAfter(op, id)
  /\ gone' = GoneAfter(op, id, payload)

\* The same, for a dispatch taken as one step.
Record(op, id, payload) == RecordHist(op, id, payload) /\ UNCHANGED stepVars

NoEvent == [handler |-> "none", op |-> "none", id |-> 0, payload |-> {}, count |-> 0]

\* ------------------------------------------------------------------ store
Init ==
  /\ items = initialState.items
  /\ last = NoOp
  /\ decRun = [id \in Ids |-> NoRun]
  /\ trip = NoTrip
  /\ gone = [id \in Ids |-> NoGone]
  /\ products = <<>>
  /\ selectedProduct = {}
  /\ modalVisible = FALSE
  /\ fetchState = "pending"
  /\ pc = "idle"
  /\ draft = <<>>
  /\ event = NoEvent

\* dispatch(addToCart(p)), as the store sees it
DispatchAddToCart(p) ==
  /\ Room(items, p.id)
  /\ items' = addToCart(items, p)
  /\ Record("addToCart", p.id, {p})

\* dispatch(incrementQuantity(id))
DispatchIncrementQuantity(id) ==
  /\ Room(items, id)
  /\ items' = incrementQuantity(items, id)
  /\ Record("incrementQuantity", id, {})

\* dispatch(decrementQuantity(id))
DispatchDecrementQuantity(id) ==
  /\ items' = decrementQuantity(items, id)
  /\ Record("decrementQuantity", id, {})

\* The store alone, driven by any sequence of its three operations.
AddToCart(p) == DispatchAddToCart(p) /\ UNCHANGED appVars

\* Variant: the reducer reads state.items[id].quantity with no test, which
\* throws for an absent id, so the dispatch has no outcome.
IncrementQuantity_Throws(id) ==
  Has(items, id) /\ DispatchIncrementQuantity(id) /\ UNCHANGED appVars

IncrementQuantity(id) == DispatchIncrementQuantity(id) /\ UNCHANGED appVars

DecrementQuantity(id) == DispatchDecrementQuantity(id) /\ UNCHANGED appVars

Next ==
  \/ \E p \in Payloads : AddToCart(p)
  \/ \E id \in Ids : IncrementQuantity(id)
  \/ \E id \in Ids : DecrementQuantity(id)

Spec == Init /\ [][Next]_vars

\* ------------------------------------------------------------------ App
\* The elements of a list.
Range(seq) == {seq[i] : i \in DOMAIN seq}

\* .then(data => setProducts(data))
FetchResolve(data) ==
  /\ fetchState = "pending"
  /\ fetchState' = "fulfilled"
  /\ products' = data
  /\ UNCHANGED <<storeVars, selectedProduct, modalVisible>>

\* .catch(error => console.error(error))
FetchReject ==
  /\ fetchState = "pending"
  /\ fetchState' = "rejected"
  /\ UNCHANGED <<storeVars, products, selectedProduct, modalVisible>>

openModal(product) ==
  /\ selectedProduct' = {product}
  /\ modalVisible' = TRUE

\* Variant: only the visibility is reset.
closeModal_KeepsSelection ==
  /\ selectedProduct' = selectedProduct
  /\ modalVisible' = FALSE

closeModal ==
  /\ selectedProduct' = {}
  /\ modalVisible' = FALSE

addItemToCart(product) ==
  LET cartItem == Spread(product, "quantity", 1)
  IN  /\ DispatchAddToCart(cartItem)
      /\ closeModal

\* The Modal is rendered when selectedProduct is not null, and shown when
\* modalVisible.
ModalShown == selectedProduct # {} /\ modalVisible

\* Variant: a row is also shown for a product that is not in the fetched list.
PressItem_AnyProduct(item) ==
  /\ openModal(item)
  /\ UNCHANGED <<storeVars, products, fetchState>>

\* A tap on a row of the list: onPress={() => openModal(item)}
PressItem(item) ==
  /\ item \in Range(products)
  /\ openModal(item)
  /\ UNCHANGED <<storeVars, products, fetchState>>

\* The modal's "Add To Cart": onPress={() => addItemToCart(selectedProduct)}
PressAddToCart ==
  /\ ModalShown
  /\ \E product \in selectedProduct : addItemToCart(product)
  /\ UNCHANGED <<products, fetchState>>

\* The modal's "Close", and onRequestClose
PressClose ==
  /\ ModalShown
  /\ closeModal
  /\ UNCHANGED <<storeVars, products, fetchState>>

\* Variant: the "-" is rendered without the test of cart[item.id].
PressMinus_AlwaysRendered(item) ==
  /\ item \in Range(products)
  /\ DispatchDecrementQuantity(item.id)
  /\ UNCHANGED appVars

\* The row's "-", rendered when cart[item.id]
PressMinus(item) ==
  /\ item \in Range(products)
  /\ Has(items, item.id)
  /\ DispatchDecrementQuantity(item.id)
  /\ UNCHANGED appVars

\* The row's "+", rendered when cart[item.id]
PressPlus(item) ==
  /\ item \in Range(products)
  /\ Has(items, item.id)
  /\ DispatchIncrementQuantity(item.id)
  /\ UNCHANGED appVars

NextApp ==
  \/ \E data \in Catalogs : FetchResolve(data)
  \/ FetchReject
  \/ \E item \in Products : PressItem(item)
  \/ PressAddToCart
  \/ PressClose
  \/ \E item \in Products : PressMinus(item)
  \/ \E item \in Products : PressPlus(item)

SpecApp == Init /\ [][NextApp]_vars

\* ------------------------------------------------------------------ App, by steps
\* The same App with each cart-affecting handler taken statement by statement.
\* JavaScript runs a handler to completion, so a new event starts only at
\* pc = "idle". A reducer of createSlice works on a draft of the state; the
\* store's state, which useSelector reads, is replaced when the reducer returns.

\* dispatch(action), called by handler: the reducer starts on a draft.
StartDispatch(handler, op, id, payload) ==
  /\ pc = "idle"
  /\ pc' = "reducing"
  /\ draft' = items
  /\ event' = [handler |-> handler, op |-> op, id |-> id, payload |-> payload,
               count |-> 1]
  /\ UNCHANGED <<items, last, decRun, trip, gone, appVars>>

\* The modal's "Add To Cart": addItemToCart up to dispatch(addToCart(cartItem))
TapAddToCart ==
  /\ ModalShown
  /\ \E product \in selectedProduct :
       /\ Room(items, product.id)
       /\ StartDispatch("addItemToCart", "addToCart", product.id,
                        {Spread(product, "quantity", 1)})

\* The row's "-": dispatch(decrementQuantity(item.id))
TapMinus(item) ==
  /\ item \in Range(products)
  /\ Has(items, item.id)
  /\ StartDispatch("minus", "decrementQuantity", item.id, {})

\* The row's "+": dispatch(incrementQuantity(item.id))
TapPlus(item) ==
  /\ item \in Range(products)
  /\ Has(items, item.id)
  /\ Room(items, item.id)
  /\ StartDispatch("plus", "incrementQuantity", item.id, {})

\* The body of addToCart
ReduceAddToCart ==
  /\ pc = "reducing"
  /\ event.op = "addToCart"
  /\ \E item \in event.payload : draft' = addToCart(draft, item)
  /\ pc' = "return"
  /\ UNCHANGED <<items, last, decRun, trip, gone, appVars, event>>

\* The body of incrementQuantity
ReduceIncrement ==
  /\ pc = "reducing"
  /\ event.op = "incrementQuantity"
  /\ draft' = incrementQuantity(draft, event.id)
  /\ pc' = "return"
  /\ UNCHANGED <<items, last, decRun, trip, gone, appVars, event>>

\* Variant: decrementQuantity without its removal; the entry is left for a
\* later clean-up.
ReduceDecrement_NoRemoval ==
  /\ pc = "reducing"
  /\ event.op = "decrementQuantity"
  /\ IF Has(draft, event.id)
     THEN draft' = [draft EXCEPT ![event.id] = [@ EXCEPT !["quantity"] = @ - 1]]
     ELSE draft' = draft
  /\ pc' = "return"
  /\ UNCHANGED <<items, last, decRun, trip, gone, appVars, event>>

\* decrementQuantity: if (state.items[id]) state.items[id].quantity -= 1
ReduceDecrement ==
  /\ pc = "reducing"
  /\ event.op = "decrementQuantity"
  /\ IF Has(draft, event.id)
     THEN /\ draft' = [draft EXCEPT ![event.id] = [@ EXCEPT !["quantity"] = @ - 1]]
          /\ pc' = "decremented"
     ELSE /\ draft' = draft
          /\ pc' = "return"
  /\ UNCHANGED <<items, last, decRun, trip, gone, appVars, event>>

\* decrementQuantity: if (state.items[id].quantity <= 0) delete state.items[id]
ReduceRemove ==
  /\ pc = "decremented"
  /\ draft' = IF draft[event.id]["quantity"] <= 0
              THEN Delete(draft, event.id)
              ELSE draft
  /\ pc' = "return"
  /\ UNCHANGED <<items, last, decRun, trip, gone, appVars, event>>

\* The reducer returns: the draft becomes the store's state, dispatch returns.
ReducerReturn ==
  /\ pc = "return"
  /\ items' = draft
  /\ RecordHist(event.op, event.id, event.payload)
  /\ draft' = <<>>
  /\ pc' = IF event.handler = "addItemToCart" THEN "closing" ELSE "idle"
  /\ UNCHANGED <<appVars, event>>

\* addItemToCart after the dispatch: closeModal()
CloseAfterAdd ==
  /\ pc = "closing"
  /\ closeModal
  /\ pc' = "idle"
  /\ UNCHANGED <<items, last, decRun, trip, gone, products, fetchState, draft, event>>

NextSteps ==
  \/ \E data \in Catalogs : pc = "idle" /\ FetchResolve(data)
  \/ pc = "idle" /\ FetchReject
  \/ \E item \in Products : pc = "idle" /\ PressItem(item)
  \/ pc = "idle" /\ PressClose
  \/ TapAddToCart
  \/ \E item \in Products : TapMinus(item)
  \/ \E item \in Products : TapPlus(item)
  \/ ReduceAddToCart
  \/ ReduceIncrement
  \/ ReduceDecrement
  \/ ReduceRemove
  \/ ReducerReturn
  \/ CloseAfterAdd

SpecSteps == Init /\ [][NextSteps]_vars

\* ------------------------------------------------------------------ claims
\* The entry the last operation found under its id, when it found one.
LastPre == CHOOSE e \in last.pre : TRUE
\* The payload of the last operation, when it was an addToCart.
LastPayload == CHOOSE p \in last.payload : TRUE
\* e with its quantity changed by n.
WithQuantity(e, n) == [e EXCEPT !["quantity"] = @ + n]

\* C1: in every state reached by addToCart, incrementQuantity and
\* decrementQuantity from the empty cart, every entry of items has
\* quantity >= 1.
C1_QuantityAtLeastOne == \A id \in DOMAIN items : items[id]["quantity"] >= 1

\* A decrement has just taken the last unit of an entry while another entry
\* stays in the cart.
C1_Witness ==
  /\ last.op = "decrementQuantity"
  /\ last.pre # {}
  /\ LastPre["quantity"] = 1
  /\ ~Has(items, last.id)
  /\ DOMAIN items # {}

\* C2: addToCart(P) with P.id not a key of items results in exactly one entry
\* for P.id, with quantity 1 whatever quantity P carries, and with P's title,
\* image and price.
C2_AddAbsentInserts ==
  (last.op = "addToCart" /\ last.pre = {}) =>
    /\ Has(items, last.id)
    /\ Cardinality({k \in DOMAIN items : items[k]["id"] = LastPayload["id"]}) = 1
    /\ items[last.id]["id"] = LastPayload["id"]
    /\ items[last.id]["quantity"] = 1
    /\ items[last.id]["title"] = LastPayload["title"]
    /\ items[last.id]["image"] = LastPayload["image"]
    /\ items[last.id]["price"] = LastPayload["price"]

\* An absent id has just been added with a payload whose quantity is not 1.
C2_Witness ==
  /\ last.op = "addToCart"
  /\ last.pre = {}
  /\ LastPayload["quantity"] = 5
  /\ Has(items, last.id)

\* C3: addToCart(P) with items[P.id] present at quantity q results in quantity
\* q + 1 and leaves the entry's title, image and price as stored, even when P
\* carries other ones.
C3_AddPresentIncrements ==
  (last.op = "addToCart" /\ last.pre # {}) =>
    /\ Has(items, last.id)
    /\ items[last.id]["quantity"] = LastPre["quantity"] + 1
    /\ items[last.id]["title"] = LastPre["title"]
    /\ items[last.id]["image"] = LastPre["image"]
    /\ items[last.id]["price"] = LastPre["price"]

\* A present id has just been added again with a payload that differs from the
\* stored entry in title, image and price.
C3_Witness ==
  /\ last.op = "addToCart"
  /\ last.pre # {}
  /\ LastPayload["title"] # LastPre["title"]
  /\ LastPayload["image"] # LastPre["image"]
  /\ LastPayload["price"] # LastPre["price"]
  /\ Has(items, last.id)
  /\ items[last.id]["quantity"] = 2

\* C4: decrementQuantity(id) with items[id] present at quantity q leaves the
\* entry present at quantity q - 1 when q >= 2, and removes it when q = 1.
C4_DecrementPresent ==
  (last.op = "decrementQuantity" /\ last.pre # {}) =>
    IF LastPre["quantity"] >= 2
    THEN Has(items, last.id) /\ items[last.id] = WithQuantity(LastPre, -1)
    ELSE ~Has(items, last.id)

\* An entry of quantity 2 or more has been decremented down to removal: the
\* last decrement found quantity 1, an earlier one of the same run found more.
C4_Witness ==
  /\ last.op = "decrementQuantity"
  /\ last.pre # {}
  /\ LastPre["quantity"] = 1
  /\ decRun[last.id].q >= 2
  /\ ~Has(items, last.id)

\* C5: incrementQuantity(id) with items[id] present at quantity q yields
\* quantity q + 1 and leaves id, title, image and price unchanged.
C5_IncrementPresent ==
  (last.op = "incrementQuantity" /\ last.pre # {}) =>
    /\ Has(items, last.id)
    /\ items[last.id] = WithQuantity(LastPre, 1)

\* A present entry has just been incremented.
C5_Witness ==
  /\ last.op = "incrementQuantity"
  /\ last.pre # {}
  /\ Has(items, last.id)
  /\ items[last.id]["quantity"] >= 2

\* C6: incrementQuantity(id) and decrementQuantity(id) with id not a key of
\* items leave items unchanged.
C6_AbsentIsNoOp ==
  [][\A id \in Ids :
       (~Has(items, id) /\ (IncrementQuantity(id) \/ DecrementQuantity(id)))
         => items' = items]_vars

\* An increment or decrement has just been dispatched for an absent id while
\* the cart holds another entry.
C6_Witness ==
  /\ last.op \in {"incrementQuantity", "decrementQuantity"}
  /\ last.pre = {}
  /\ ~Has(items, last.id)
  /\ DOMAIN items # {}

\* C7: q decrements in a row of an entry of quantity q leave id absent, and
\* after each of the first k < q of them the entry is present with quantity
\* q - k.
C7_DecrementRun ==
  \A id \in Ids :
    decRun[id].k > 0 =>
      IF decRun[id].k < decRun[id].q
      THEN Has(items, id) /\ items[id]["quantity"] = decRun[id].q - decRun[id].k
      ELSE decRun[id].k = decRun[id].q /\ ~Has(items, id)

\* A run of three decrements has removed an entry of quantity 3.
C7_Witness ==
  \E id \in Ids : decRun[id].q = 3 /\ decRun[id].k = 3 /\ ~Has(items, id)

\* C8: from a state where id is absent, addToCart for id, n further
\* addToCart/incrementQuantity on id and then n + 1 decrementQuantity(id)
\* restore items to the starting state; add, add, decrement, decrement from
\* the empty cart leaves items empty.
C8_RoundTrip ==
  /\ (trip.on /\ trip.d = trip.n + 1) => items = trip.base
  /\ (trip.on /\ DOMAIN trip.base = {} /\ trip.n = 1 /\ trip.d = 2)
       => DOMAIN items = {}

\* A round trip with n >= 1 has completed from a non-empty cart.
C8_Witness ==
  /\ trip.on
  /\ trip.n >= 1
  /\ trip.d = trip.n + 1
  /\ DOMAIN trip.base # {}

\* C9: in every state of the app, every entry of items has exactly the
\* attributes id, title, image, price and quantity, and none of category,
\* rating, description.
C9_OnlyCartItemFields ==
  \A id \in DOMAIN items : DOMAIN items[id] = CartItemFields

\* C10: the three operations are total: in every state each of them, with any
\* payload or id, is enabled and yields a CartState; no state is stuck.
\* (Room: the model stops adding at MaxQuantity.)
C10_Total ==
  /\ IsCartState(items)
  /\ \A p \in Payloads :
       Room(items, p.id) => ENABLED (AddToCart(p) /\ IsCartState(items'))
  /\ \A id \in Ids :
       Room(items, id) => ENABLED (IncrementQuantity(id) /\ IsCartState(items'))
  /\ \A id \in Ids : ENABLED (DecrementQuantity(id) /\ IsCartState(items'))
  /\ ENABLED Next

\* An increment or decrement has just been dispatched on the empty cart, for
\* an id that has no entry: the input an operation would most likely fail on.
C10_Witness ==
  /\ last.op \in {"incrementQuantity", "decrementQuantity"}
  /\ last.pre = {}
  /\ DOMAIN items = {}

\* C11: a product id appears at most once in items: every entry is stored
\* under the key equal to its own id field, so no two entries have the same id.
C11_KeyIsId ==
  /\ \A k \in DOMAIN items : items[k]["id"] = k
  /\ \A j, k \in DOMAIN items : items[j]["id"] = items[k]["id"] => j = k

\* Two products are in the cart and one of them has just been added a second
\* time.
C11_Witness ==
  /\ Cardinality(DOMAIN items) = 2
  /\ last.op = "addToCart"
  /\ last.pre # {}
  /\ items[last.id]["quantity"] = 2

\* What one application of the reducer named by e makes of its.
Reduced(e, its) ==
  IF e.op = "addToCart" THEN addToCart(its, CHOOSE p \in e.payload : TRUE)
  ELSE IF e.op = "incrementQuantity" THEN incrementQuantity(its, e.id)
  ELSE decrementQuantity(its, e.id)

\* C12: each cart-affecting tap dispatches exactly one store operation, which
\* is applied as one atomic step before the next event: the items the
\* presentation reads change only when a reducer returns, and then to what one
\* whole operation makes of them; between events no entry has a quantity
\* decremented to 0 and not yet removed.
C12_AtomicTaps ==
  [][/\ items' # items => (pc = "return" /\ items' = Reduced(event, items))
     /\ pc = "return" => items' = Reduced(event, items)
     /\ (pc # "idle" /\ pc' = "idle") => event'.count = 1
     /\ pc' = "idle" => \A id \in DOMAIN items' : items'[id]["quantity"] >= 1
    ]_vars

\* The "-" handler has finished on an entry of quantity 1: the draft held
\* quantity 0 on the way, and the entry is gone from items.
C12_Witness ==
  /\ pc = "idle"
  /\ event.handler = "minus"
  /\ event.count = 1
  /\ last.op = "decrementQuantity"
  /\ last.pre # {}
  /\ LastPre["quantity"] = 1
  /\ ~Has(items, last.id)

\* C13: each of addToCart, incrementQuantity and decrementQuantity applied to
\* id i leaves the entry (presence, quantity, title, image, price) of every
\* other id unchanged.
C13_OtherIdsUnchanged ==
  [][\A i \in Ids :
       (\/ \E p \in Payloads : p.id = i /\ AddToCart(p)
        \/ IncrementQuantity(i)
        \/ DecrementQuantity(i))
       => \A j \in Ids \ {i} : EntryOf(items', j) = EntryOf(items, j)]_vars

\* The last unit of one product has just been removed while another product
\* with more than one unit is in the cart.
C13_Witness ==
  /\ last.op = "decrementQuantity"
  /\ last.pre # {}
  /\ ~Has(items, last.id)
  /\ \E j \in DOMAIN items : items[j]["quantity"] >= 2

\* C14: after a decrement has removed the entry of id, the store keeps no
\* memory of it: the next addToCart(P') for id inserts a fresh entry, with
\* quantity 1 and P''s title, image and price.
C14_NoMemoryOfRemoved ==
  \A id \in Ids :
    gone[id].p # {} =>
      LET p == CHOOSE x \in gone[id].p : TRUE
      IN  /\ Has(items, id)
          /\ items[id] = Spread(p, "quantity", 1)

\* An id has been removed and added again with a payload that differs in
\* title, image and price from the entry that was removed.
C14_Witness ==
  \E id \in Ids :
    /\ gone[id].p # {}
    /\ \E e \in gone[id].e, p \in gone[id].p :
         /\ e["title"] # p["title"]
         /\ e["image"] # p["image"]
         /\ e["price"] # p["price"]
    /\ Has(items, id)
    /\ items[id]["quantity"] = 1

\* The actions that can be dispatched to the store.
StoreActions ==
  {[op |-> "addToCart", id |-> p.id, payload |-> {p}] : p \in Payloads}
  \cup {[op |-> o, id |-> i, payload |-> {}] :
          o \in {"incrementQuantity", "decrementQuantity"}, i \in Ids}

\* C15: two store operations that target different ids commute: from every
\* reachable state, op1 on i then op2 on j gives the same items as op2 then
\* op1, for every choice of op1 and op2 among the three operations.
C15_Commute ==
  \A a, b \in StoreActions :
    a.id < b.id =>
      Reduced(b, Reduced(a, items)) = Reduced(a, Reduced(b, items))

\* A state in which the order could matter: one product is in the cart with a
\* single unit, put there by the last operation, the other is absent, so that
\* a decrement of the first (a removal) meets an addToCart of the second (an
\* insertion).
C15_Witness ==
  /\ last.op = "addToCart"
  /\ Cardinality(DOMAIN items) = 1
  /\ \E a, b \in StoreActions :
       /\ a.id # b.id
       /\ a.op = "decrementQuantity" /\ Has(items, a.id)
       /\ b.op = "addToCart" /\ ~Has(items, b.id)
       /\ DOMAIN Reduced(b, Reduced(a, items)) = {b.id}
       /\ Reduced(b, Reduced(a, items)) = Reduced(a, Reduced(b, items))

\* C16: in the App the "+" and "-" of a product are rendered only while its id
\* is a key of the cart, so incrementQuantity and decrementQuantity are never
\* dispatched for an id absent from items, and the controls are gone as soon
\* as the last unit has been decremented away.
C16_ControlsOnlyWhilePresent ==
  /\ last.op \in {"incrementQuantity", "decrementQuantity"} => last.pre # {}
  /\ \A item \in Products :
       ~Has(items, item.id) =>
         ~ENABLED PressMinus(item) /\ ~ENABLED PressPlus(item)
  /\ (last.op = "decrementQuantity" /\ last.pre # {} /\ LastPre["quantity"] = 1)
       => /\ ~Has(items, last.id)
          /\ \A item \in Range(products) :
               item.id = last.id =>
                 ~ENABLED PressMinus(item) /\ ~ENABLED PressPlus(item)

\* The "-" of a listed product has just taken its last unit away.
C16_Witness ==
  /\ last.op = "decrementQuantity"
  /\ last.pre # {}
  /\ LastPre["quantity"] = 1
  /\ ~Has(items, last.id)
  /\ \E item \in Range(products) : item.id = last.id

\* Every id in the cart is the id of a fetched product; nothing is fetched and
\* nothing is in the cart unless the fetch has succeeded.
CartWithinCatalog ==
  /\ \A id \in DOMAIN items : \E p \in Range(products) : p.id = id
  /\ fetchState # "fulfilled" => (products = <<>> /\ DOMAIN items = {})

\* C17: in every state of the App every id in the cart is the id of a product
\* in the fetched list: the cart stays empty until the fetch has succeeded,
\* and after a failed fetch the list and the cart stay empty for good.
C17_CartWithinCatalog ==
  /\ CartWithinCatalog
  /\ [][/\ CartWithinCatalog'
        /\ fetchState = "rejected" => fetchState' = "rejected"
        /\ fetchState = "fulfilled" => products' = products]_vars

\* Both products of a fetched list are in the cart.
C17_Witness ==
  /\ fetchState = "fulfilled"
  /\ Cardinality(DOMAIN items) = 2
  /\ \A id \in DOMAIN items : \E p \in Range(products) : p.id = id

\* modalVisible is true exactly when selectedProduct is not null.
ModalConsistent == modalVisible <=> selectedProduct # {}

\* C18: after any sequence of openModal, closeModal and addItemToCart,
\* modalVisible is true exactly when selectedProduct is not null;
\* addItemToCart dispatches one addToCart and leaves the modal closed; and
\* addToCart is dispatched only for the product selected in the open modal.
C18_ModalAndAdd ==
  /\ ModalConsistent
  /\ [][/\ ModalConsistent'
        /\ PressAddToCart =>
             /\ ~modalVisible' /\ selectedProduct' = {}
             /\ \E product \in selectedProduct :
                  items' = addToCart(items, Spread(product, "quantity", 1))
        /\ (items' # items /\ last'.op = "addToCart") =>
             /\ modalVisible
             /\ \E product \in selectedProduct :
                  last'.payload = {Spread(product, "quantity", 1)}
       ]_vars

\* Add To Cart has just been pressed for a product already in the cart, and
\* the modal is closed.
C18_Witness ==
  /\ last.op = "addToCart"
  /\ last.pre # {}
  /\ Has(items, last.id)
  /\ ~modalVisible
  /\ selectedProduct = {}

====
